---- MODULE Spec2Model ----
(***************************************************************************)
(* Model of the Jarvis chat-session REST API.                              *)
(*                                                                         *)
(*   src/server.js           process start-up: connectDB(), app.listen()   *)
(*   src/config/database.js  connectDB: connect, or exit(1) on failure     *)
(*   src/unnamed/part_000    the ChatSession / ChatMessage schemas         *)
(*   src/routes/sessions.js  the five route handlers                       *)
(*                                                                         *)
(* A handler runs without interleaving up to its next await; the storage   *)
(* calls (insert, find, findOne, updateOne, findOneAndDelete) are the      *)
(* atomic steps.  Only PUT has two storage calls (findOne, then save), so  *)
(* only PUT is split over several actions.  Storage calls issued while the *)
(* connection is still being opened are buffered by the driver and run     *)
(* once it is open; driver-level failures after the connection is open     *)
(* (timeouts, network errors) are outside the model.                       *)
(***************************************************************************)
EXTENDS Integers, Sequences, FiniteSets, TLC

VARIABLES
    proc,      \* "running" | "exited"                       (server.js / database.js)
    exitCode,  \* status passed to process.exit, 0 while running
    db,        \* "connecting" | "connected"                 (mongoose.connect)
    store,     \* the ChatSession collection: a set of documents
    used,      \* ids uuidv4() has already produced for inserted documents
    clock,     \* the wall clock read by new Date() / Date.now
    inflight,  \* per PUT handler in progress: its request and its in-memory document
    resp,      \* the HTTP response sent by the step just taken, or NoResp
    deleted,   \* history: ids whose DELETE returned success
    created    \* history: bodies returned by POST for sessions not updated or deleted since

vars == <<proc, exitCode, db, store, used, clock, inflight, resp, deleted, created>>

----------------------------------------------------------------------------
(* Bounds of the model                                                     *)

MaxTitleLen == 2      \* longest title a request carries
MaxMsgs     == 2      \* longest message list a request carries
MaxIds      == 3      \* size of the id space uuidv4() draws from
MaxClock    == 1      \* last clock value
MaxVersion  == 2      \* largest document version __v
MaxQuery    == 2      \* largest limit / skip a request carries

(* Program constants                                                       *)

DefaultLimit == 50    \* router.get('/'): limit = 50
DefaultSkip  == 0     \* router.get('/'): skip = 0
TextMaxLen   == 10000 \* chatMessageSchema.text.maxlength
TitleMaxLen  == 200   \* chatSessionSchema.title.maxlength

----------------------------------------------------------------------------
(* Values                                                                  *)

Owners == {"A", "B"}
Ids    == 1 .. MaxIds
Chars  == {" ", "a"}
Slots  == {1, 2}

\* JavaScript undefined, where a string is expected
Undefined == "undefined"

RECURSIVE SeqsUpTo(_, _)
SeqsUpTo(S, n) ==
    IF n = 0 THEN {<< >>}
    ELSE LET shorter == SeqsUpTo(S, n - 1)
         IN  shorter \cup {Append(s, x) : s \in {t \in shorter : Len(t) = n - 1}, x \in S}

\* the default title literal of the handlers and of the schema
Conversation == <<"C", "o", "n", "v", "e", "r", "s", "a", "t", "i", "o", "n">>

\* request values of the title field: absent, or a string
NoTitle      == [kind |-> "undefined"]
Str(cs)      == [kind |-> "string", chars |-> cs]
TitleInputs  == {NoTitle} \cup {Str(cs) : cs \in SeqsUpTo(Chars, MaxTitleLen)}

\* message texts: a string is its content tag and its length
NoText   == [kind |-> "undefined"]
TextHi   == [kind |-> "string", s |-> "hi", len |-> 2]
TextMax  == [kind |-> "string", s |-> "max", len |-> TextMaxLen]
TextLong == [kind |-> "string", s |-> "long", len |-> TextMaxLen + 1]

NoTs     == [kind |-> "undefined"]
Ts(t)    == [kind |-> "date", t |-> t]

MsgUser   == [role |-> "user",      text |-> TextHi,   ts |-> Ts(0)]
MsgAsst   == [role |-> "assistant", text |-> TextMax,  ts |-> NoTs]
MsgBadRole == [role |-> "system",   text |-> TextHi,   ts |-> Ts(0)]
MsgNoRole  == [role |-> Undefined,  text |-> TextHi,   ts |-> Ts(0)]
MsgNoText  == [role |-> "user",     text |-> NoText,   ts |-> Ts(0)]
MsgLong    == [role |-> "user",     text |-> TextLong, ts |-> Ts(0)]

GoodMsgs == {MsgUser, MsgAsst}
BadMsgs  == {MsgBadRole, MsgNoRole, MsgNoText, MsgLong}

\* request values of the messages field: absent, not an array, or an array
NoMessages  == [kind |-> "undefined"]
NotAnArray  == [kind |-> "string"]
Arr(items)  == [kind |-> "array", items |-> items]
MessagesInputs ==
    {NoMessages, NotAnArray}
        \cup {Arr(s) : s \in SeqsUpTo(GoodMsgs, MaxMsgs)}
        \cup {Arr(<<b>>) : b \in BadMsgs}
        \cup {Arr(<<MsgUser, b>>) : b \in BadMsgs}

UserIdInputs == Owners \cup {Undefined}

\* query-string numbers: one decimal digit
Digit(n) == <<"0", "1", "2", "3", "4", "5", "6", "7", "8", "9">>[n + 1]

\* request values of limit and skip: absent, or a one-digit string
NoQuery     == [kind |-> "undefined"]
QueryInputs == {NoQuery} \cup {[kind |-> "string", digits |-> Digit(n)] : n \in 0 .. MaxQuery}

NoResp == [op |-> "none"]
Idle   == [pc |-> "idle"]

----------------------------------------------------------------------------
(* Pure helpers of the handlers and of the schema                          *)

\* String.prototype.trim
RECURSIVE TrimLeft(_)
TrimLeft(cs) == IF cs # << >> /\ Head(cs) = " " THEN TrimLeft(Tail(cs)) ELSE cs

RECURSIVE TrimRight(_)
TrimRight(cs) ==
    IF cs # << >> /\ cs[Len(cs)] = " " THEN TrimRight(SubSeq(cs, 1, Len(cs) - 1)) ELSE cs

Trim(cs) == TrimRight(TrimLeft(cs))

\* title.trim() || 'Conversation'
TitleOrDefault(cs) == IF Trim(cs) = << >> THEN Conversation ELSE Trim(cs)

\* !title, for a title that is undefined or a string
Falsy(x) == x.kind = "undefined" \/ (x.kind = "string" /\ x.chars = << >>)

\* parseInt of a one-digit string
ParseInt(digits) == CHOOSE n \in 0 .. 9 : Digit(n) = digits

\* parseInt(q) for a query value destructured with a numeric default
ParseQuery(q, default) == IF q.kind = "undefined" THEN default ELSE ParseInt(q.digits)

\* Array.isArray(messages)
IsArray(m) == m.kind = "array"

\* chatMessageSchema casting: ts defaults to Date.now
CastMessage(m, now) == [m EXCEPT !.ts = IF m.ts.kind = "undefined" THEN Ts(now) ELSE m.ts]

CastMessages(items, now) == [i \in 1 .. Len(items) |-> CastMessage(items[i], now)]

\* chatMessageSchema validators: role required + enum, text required + maxlength
ValidMessage(m) ==
    /\ m.role \in {"user", "assistant"}
    /\ m.text.kind = "string"
    /\ m.text.len >= 1
    /\ m.text.len <= TextMaxLen
    /\ m.ts.kind = "date"

\* chatSessionSchema validators on the paths the handlers set
ValidDoc(d) ==
    /\ d.userId # Undefined
    /\ Len(d.title) >= 1
    /\ Len(d.title) <= TitleMaxLen
    /\ \A i \in 1 .. Len(d.messages) : ValidMessage(d.messages[i])

\* toJSON transform: the document without _id and __v
ToJSON(d) ==
    [id |-> d.id, userId |-> d.userId, title |-> d.title,
     messages |-> d.messages, createdAt |-> d.createdAt]

\* new ChatSession(sessionData); the schema's trim setter runs on title
NewSession(id, userId, title, items, now) ==
    [_id |-> id, id |-> id, userId |-> userId,
     title |-> Trim(TitleOrDefault(title)),
     messages |-> CastMessages(items, now),
     createdAt |-> now, __v |-> 0]

\* A faulty filter, without the owner: { id }
MatchingById(id, userId) == {d \in store : d.id = id}

\* the documents matching { id, userId }
Matching(id, userId) == {d \in store : d.id = id /\ d.userId = userId}

Found(id, userId) == Matching(id, userId) # {}

\* ChatSession.findOne({ id, userId }), when Found
FindOne(id, userId) == CHOOSE d \in Matching(id, userId) : TRUE

NotFoundBody == [error |-> "Session not found"]

----------------------------------------------------------------------------
(* Start-up                                                                *)

Init ==
    /\ proc = "running"
    /\ exitCode = 0
    /\ db = "connecting"
    /\ store = {}
    /\ used = {}
    /\ clock = 0
    /\ inflight = [p \in Slots |-> Idle]
    /\ resp = NoResp
    /\ deleted = {}
    /\ created = {}

\* mongoose.connect resolves
ConnectOk ==
    /\ proc = "running"
    /\ db = "connecting"
    /\ db' = "connected"
    /\ resp' = NoResp
    /\ UNCHANGED <<proc, exitCode, store, used, clock, inflight, deleted, created>>

\* mongoose.connect rejects: process.exit(1)
ConnectFail ==
    /\ proc = "running"
    /\ db = "connecting"
    /\ proc' = "exited"
    /\ exitCode' = 1
    /\ resp' = NoResp
    /\ UNCHANGED <<db, store, used, clock, inflight, deleted, created>>

\* time passes
Tick ==
    /\ proc = "running"
    /\ clock < MaxClock
    /\ clock' = clock + 1
    /\ resp' = NoResp
    /\ UNCHANGED <<proc, exitCode, db, store, used, inflight, deleted, created>>

----------------------------------------------------------------------------
(* POST /api/sessions                                                      *)

CreateReq(userId, title, messages) == [userId |-> userId, title |-> title, messages |-> messages]

\* A faulty insert: it drops a message equal to the one before it
InsertDeduped(coll, session) ==
    LET ms   == session.messages
        keep == {i \in 1 .. Len(ms) : i = 1 \/ ms[i] # ms[i - 1]}
        pick[i \in 0 .. Len(ms)] ==
            IF i = 0 THEN << >>
            ELSE IF i \in keep THEN Append(pick[i - 1], ms[i]) ELSE pick[i - 1]
    IN  coll \cup {[session EXCEPT !.messages = pick[Len(ms)]]}

\* session.save() on a new document: one insert of the document as cast
Insert(coll, session) == coll \cup {session}

\* id is the value uuidv4() returns
Create(id, userId, title, messages) ==
    /\ proc = "running"
    /\ IF userId = Undefined \/ Falsy(title) \/ ~IsArray(messages)
       THEN /\ resp' = [op |-> "create", req |-> CreateReq(userId, title, messages),
                        status |-> 400,
                        body |-> [error |-> "Missing required fields: userId, title, messages"]]
            /\ UNCHANGED <<store, used, deleted, created>>
       ELSE /\ db = "connected"
            /\ LET session == NewSession(id, userId, title.chars, messages.items, clock)
               IN  IF ~ValidDoc(session)
                   THEN /\ resp' = [op |-> "create",
                                    req |-> CreateReq(userId, title, messages),
                                    status |-> 500,
                                    body |-> [error |-> "Failed to create session",
                                              message |-> "ChatSession validation failed"]]
                        /\ UNCHANGED <<store, used, deleted, created>>
                   ELSE /\ id \notin used
                        /\ store' = Insert(store, session)
                        /\ used' = used \cup {id}
                        /\ created' = created \cup {ToJSON(session)}
                        /\ resp' = [op |-> "create",
                                    req |-> CreateReq(userId, title, messages),
                                    status |-> 201, body |-> ToJSON(session)]
                        /\ UNCHANGED deleted
    /\ UNCHANGED <<proc, exitCode, db, clock, inflight>>

----------------------------------------------------------------------------
(* GET /api/sessions                                                       *)

\* the orders in which a sort on { createdAt: -1 } may return the documents:
\* documents with equal keys come in an order the storage does not fix
SortedByCreatedAtDesc(docs) ==
    LET n == Cardinality(docs)
    IN  {s \in [1 .. n -> docs] :
            /\ \A i, j \in 1 .. n : i # j => s[i] # s[j]
            /\ \A i, j \in 1 .. n : i < j => s[i].createdAt >= s[j].createdAt}

\* cursor skip, then limit; a limit of 0 is no limit
Page(s, skip, limit) ==
    LET rest == SubSeq(s, skip + 1, Len(s))
    IN  IF limit = 0 \/ limit >= Len(rest) THEN rest ELSE SubSeq(rest, 1, limit)

ListReq(userId, limit, skip) == [userId |-> userId, limit |-> limit, skip |-> skip]

List(userId, limit, skip) ==
    /\ proc = "running"
    /\ IF userId = Undefined
       THEN resp' = [op |-> "list", req |-> ListReq(userId, limit, skip), status |-> 400,
                     body |-> [error |-> "userId is required"]]
       ELSE /\ db = "connected"
            /\ \E sorted \in SortedByCreatedAtDesc({d \in store : d.userId = userId}) :
                 LET lim == ParseQuery(limit, DefaultLimit)
                     skp == ParseQuery(skip, DefaultSkip)
                     sessions == Page(sorted, skp, lim)
                 IN  resp' = [op |-> "list", req |-> ListReq(userId, limit, skip),
                              status |-> 200,
                              body |-> [i \in 1 .. Len(sessions) |-> ToJSON(sessions[i])]]
    /\ UNCHANGED <<proc, exitCode, db, store, used, clock, inflight, deleted, created>>

----------------------------------------------------------------------------
(* GET /api/sessions/:id                                                   *)

IdReq(id, userId) == [id |-> id, userId |-> userId]

Get(id, userId) ==
    /\ proc = "running"
    /\ IF userId = Undefined
       THEN resp' = [op |-> "get", req |-> IdReq(id, userId), status |-> 400,
                     body |-> [error |-> "userId is required"]]
       ELSE /\ db = "connected"
            /\ IF ~Found(id, userId)
               THEN resp' = [op |-> "get", req |-> IdReq(id, userId), status |-> 404,
                             body |-> NotFoundBody]
               ELSE resp' = [op |-> "get", req |-> IdReq(id, userId), status |-> 200,
                             body |-> ToJSON(FindOne(id, userId))]
    /\ UNCHANGED <<proc, exitCode, db, store, used, clock, inflight, deleted, created>>

----------------------------------------------------------------------------
(* DELETE /api/sessions/:id                                                *)

Delete(id, userId) ==
    /\ proc = "running"
    /\ IF userId = Undefined
       THEN /\ resp' = [op |-> "delete", req |-> IdReq(id, userId), status |-> 400,
                        body |-> [error |-> "userId is required"]]
            /\ UNCHANGED <<store, deleted, created>>
       ELSE /\ db = "connected"
            /\ IF ~Found(id, userId)
               THEN /\ resp' = [op |-> "delete", req |-> IdReq(id, userId), status |-> 404,
                                body |-> NotFoundBody]
                    /\ UNCHANGED <<store, deleted, created>>
               ELSE /\ store' = store \ {FindOne(id, userId)}
                    /\ deleted' = deleted \cup {id}
                    /\ created' = {b \in created : b.id # id}
                    /\ resp' = [op |-> "delete", req |-> IdReq(id, userId), status |-> 200,
                                body |-> [message |-> "Session deleted successfully"]]
    /\ UNCHANGED <<proc, exitCode, db, used, clock, inflight>>

----------------------------------------------------------------------------
(* PUT /api/sessions/:id                                                   *)

UpdateReq(id, userId, title, messages) ==
    [id |-> id, userId |-> userId, title |-> title, messages |-> messages]

\* Faulty assignments: messages assigned as "messages || []"
AssignFieldsOrEmpty(session, title, messages, now) ==
    LET s1 == IF title.kind # "undefined"
              THEN [session EXCEPT !.title = Trim(TitleOrDefault(title.chars))]
              ELSE session
    IN  IF IsArray(messages)
        THEN [s1 EXCEPT !.messages = CastMessages(messages.items, now)]
        ELSE [s1 EXCEPT !.messages = << >>]

\* the assignments to the document findOne returned; the schema casts on set
AssignFields(session, title, messages, now) ==
    LET s1 == IF title.kind # "undefined"
              THEN [session EXCEPT !.title = Trim(TitleOrDefault(title.chars))]
              ELSE session
    IN  IF messages.kind # "undefined" /\ IsArray(messages)
        THEN [s1 EXCEPT !.messages = CastMessages(messages.items, now)]
        ELSE s1

\* the paths a set marked modified: those whose value differs from the one loaded
ModifiedPaths(loaded, edited) ==
    {path \in {"title", "messages"} : edited[path] # loaded[path]}

\* A faulty save: it writes the whole in-memory document back, inserting it
\* when no stored document matches
SaveUpsert(loaded, edited, coll) ==
    IF ~ValidDoc(edited)
    THEN [ok |-> FALSE, message |-> "ChatSession validation failed",
          coll |-> coll, session |-> edited]
    ELSE [ok |-> TRUE, message |-> "",
          coll |-> {d \in coll : d._id # loaded._id} \cup {edited},
          session |-> edited]

\* session.save() on a loaded document: validation, then one updateOne that
\* $sets the modified paths where { _id }, and, when the messages array is
\* replaced, where { _id, __v } with __v incremented.  No document matching
\* is an error (DocumentNotFoundError, VersionError); nothing is inserted.
Save(loaded, edited, coll) ==
    LET paths   == ModifiedPaths(loaded, edited)
        bump    == "messages" \in paths
        matches == {d \in coll : /\ d._id = loaded._id
                                 /\ (bump => d.__v = loaded.__v)}
    IN  IF ~ValidDoc(edited)
        THEN [ok |-> FALSE, message |-> "ChatSession validation failed",
              coll |-> coll, session |-> edited]
        ELSE IF matches = {}
        THEN [ok |-> FALSE, message |-> "No matching document found",
              coll |-> coll, session |-> edited]
        ELSE LET cur == CHOOSE d \in matches : TRUE
                 new == [cur EXCEPT
                           !.title    = IF "title" \in paths THEN edited.title ELSE @,
                           !.messages = IF bump THEN edited.messages ELSE @,
                           !.__v      = IF bump THEN @ + 1 ELSE @]
             IN  [ok |-> TRUE, message |-> "",
                  coll |-> (coll \ {cur}) \cup {new},
                  session |-> [edited EXCEPT !.__v = IF bump THEN @ + 1 ELSE @]]

\* the handler up to the completion of findOne
UpdateFind(p, id, userId, title, messages) ==
    /\ proc = "running"
    /\ inflight[p] = Idle
    /\ IF userId = Undefined
       THEN /\ resp' = [op |-> "update", req |-> IdReq(id, userId),
                        status |-> 400, body |-> [error |-> "userId is required"]]
            /\ UNCHANGED inflight
       ELSE /\ db = "connected"
            /\ IF ~Found(id, userId)
               THEN /\ resp' = [op |-> "update", req |-> IdReq(id, userId),
                                status |-> 404, body |-> NotFoundBody]
                    /\ UNCHANGED inflight
               ELSE /\ inflight' = [inflight EXCEPT ![p] =
                                      [pc |-> "found",
                                       req |-> UpdateReq(id, userId, title, messages),
                                       loaded |-> FindOne(id, userId)]]
                    /\ resp' = NoResp
    /\ UNCHANGED <<proc, exitCode, db, store, used, clock, deleted, created>>

\* from the completion of findOne to the completion of save
UpdateSave(p) ==
    /\ proc = "running"
    /\ inflight[p].pc = "found"
    /\ LET r      == inflight[p]
           edited == AssignFields(r.loaded, r.req.title, r.req.messages, clock)
           saved  == Save(r.loaded, edited, store)
       IN  /\ saved.session.__v <= MaxVersion
           /\ store' = saved.coll
           /\ created' = IF saved.ok THEN {b \in created : b.id # r.loaded.id} ELSE created
           /\ inflight' = [inflight EXCEPT ![p] =
                             IF saved.ok
                             THEN [pc |-> "saved", req |-> r.req, loaded |-> r.loaded,
                                   status |-> 200, body |-> ToJSON(saved.session)]
                             ELSE [pc |-> "saved", req |-> r.req, loaded |-> r.loaded,
                                   status |-> 500,
                                   body |-> [error |-> "Failed to update session",
                                             message |-> saved.message]]]
    /\ resp' = NoResp
    /\ UNCHANGED <<proc, exitCode, db, used, clock, deleted>>

\* after save: res.json(session), or the catch block's 500
UpdateRespond(p) ==
    /\ proc = "running"
    /\ inflight[p].pc = "saved"
    /\ resp' = [op |-> "update", req |-> IdReq(inflight[p].req.id, inflight[p].req.userId),
                status |-> inflight[p].status, body |-> inflight[p].body]
    /\ inflight' = [inflight EXCEPT ![p] = Idle]
    /\ UNCHANGED <<proc, exitCode, db, store, used, clock, deleted, created>>

----------------------------------------------------------------------------
(* The server                                                              *)

\* Spec: the whole server for two owners and two ids, with one PUT in progress
\* at a time; requests carry short titles and at most one message
AccessIds      == {1, 2}
AccessTitles   == {NoTitle, Str(<<" ">>), Str(<<"a">>)}
AccessMessages == {NoMessages, Arr(<<MsgUser>>)}

Next ==
    \/ ConnectOk
    \/ ConnectFail
    \/ \E i \in AccessIds, u \in UserIdInputs, t \in AccessTitles, m \in AccessMessages :
          Create(i, u, t, m)
    \/ \E u \in UserIdInputs : List(u, NoQuery, NoQuery)
    \/ \E i \in AccessIds, u \in UserIdInputs : Get(i, u)
    \/ \E i \in AccessIds, u \in UserIdInputs : Delete(i, u)
    \/ \E i \in AccessIds, u \in UserIdInputs, t \in AccessTitles, m \in AccessMessages :
          UpdateFind(1, i, u, t, m)
    \/ UpdateSave(1)
    \/ UpdateRespond(1)

Spec == Init /\ [][Next]_vars

----------------------------------------------------------------------------
(* SpecCreate: one owner creating, reading and deleting sessions, over     *)
(* every title and message list of the bounds                              *)

CreateIds == {1}

NextCreate ==
    \/ ConnectOk
    \/ \E i \in CreateIds, t \in TitleInputs, m \in MessagesInputs : Create(i, "A", t, m)
    \/ \E i \in CreateIds : Get(i, "A")
    \/ \E i \in CreateIds : Delete(i, "A")

SpecCreate == Init /\ [][NextCreate]_vars

----------------------------------------------------------------------------
(* SpecUpdate: one session of one owner, updated over every title and      *)
(* message list of the bounds, one PUT at a time                           *)

NextUpdate ==
    \/ ConnectOk
    \/ Create(1, "A", Str(<<"a">>), Arr(<<MsgUser, MsgUser>>))
    \/ \E t \in TitleInputs, m \in MessagesInputs : UpdateFind(1, 1, "A", t, m)
    \/ UpdateSave(1)
    \/ UpdateRespond(1)
    \/ Delete(1, "A")

SpecUpdate == Init /\ [][NextUpdate]_vars

----------------------------------------------------------------------------
(* SpecRace: two PUT handlers in progress on one session                   *)

RaceTitles   == {NoTitle, Str(<<" ">>), Str(<<"a">>)}
RaceMessages == {NoMessages, Arr(<< >>), Arr(<<MsgUser>>)}

NextRace ==
    \/ ConnectOk
    \/ Create(1, "A", Str(<<"a">>), Arr(<< >>))
    \/ \E p \in Slots, t \in RaceTitles, m \in RaceMessages : UpdateFind(p, 1, "A", t, m)
    \/ \E p \in Slots : UpdateSave(p)

SpecRace == Init /\ [][NextRace]_vars

----------------------------------------------------------------------------
(* SpecList: two owners creating, deleting and listing sessions while the  *)
(* clock runs                                                              *)

NextList ==
    \/ ConnectOk
    \/ Tick
    \/ \E i \in Ids, u \in Owners : Create(i, u, Str(<<"a">>), Arr(<< >>))
    \/ \E i \in Ids, u \in Owners : Delete(i, u)
    \/ \E u \in UserIdInputs, l \in QueryInputs, k \in QueryInputs : List(u, l, k)

SpecList == Init /\ [][NextList]_vars

----------------------------------------------------------------------------
(* Claims checked under Spec                                               *)

\* a response of one of the handlers that look a session up by { id, userId }
IsLookup(r) == r.op \in {"get", "update", "delete"} /\ r.req.userId \in Owners

\* C1. Ownership isolation: a get, update or delete that names a stored
\* session's id with another owner's userId is answered 404 "Session not
\* found" and changes nothing in the collection; the answer is the very one
\* given for an id that is not stored at all.
OwnershipIsolation ==
    [][IsLookup(resp') =>
         /\ (\E d \in store : d.id = resp'.req.id /\ d.userId # resp'.req.userId)
               => /\ resp'.status = 404
                  /\ resp'.body = NotFoundBody
                  /\ store' = store
         /\ ((\A d \in store : d.id # resp'.req.id) /\ inflight' = inflight)
               => /\ resp'.status = 404
                  /\ resp'.body = NotFoundBody]_vars

\* C1 witness: owner B's delete of a session stored under A was answered 404
\* and the session is still stored
OwnershipIsolationWitness ==
    /\ resp.op = "delete"
    /\ resp.status = 404
    /\ resp.req.userId = "B"
    /\ \E d \in store : d.id = resp.req.id /\ d.userId = "A"

\* C6. Delete is permanent: once DELETE has succeeded for an id, no document
\* with that id is in the collection again, whatever a PUT that loaded the
\* session earlier does, and every get, delete or update lookup of that id
\* from then on is answered 404.
DeleteIsPermanent ==
    [][\A id \in deleted :
         /\ \A d \in store' : d.id # id
         /\ (IsLookup(resp') /\ resp'.req.id = id /\ inflight' = inflight)
               => resp'.status = 404
         /\ \A p \in Slots :
               (inflight[p].pc = "idle" /\ inflight'[p].pc # "idle")
                  => inflight'[p].req.id # id]_vars

\* C6 witness: a PUT loaded the session, the session was deleted, and the
\* PUT's save has run
DeleteIsPermanentWitness ==
    \E p \in Slots :
        /\ inflight[p].pc = "saved"
        /\ inflight[p].req.title.kind = "string"
        /\ inflight[p].loaded.id \in deleted

\* C10. Start-up ordering and fail-fast: no request is answered before the
\* storage connection is open, and a failed first connection ends the process
\* with a non-zero status, nothing having been stored.
StartupOrdering ==
    /\ resp # NoResp => db = "connected"
    /\ proc = "exited" => (exitCode # 0 /\ used = {} /\ store = {})

----------------------------------------------------------------------------
(* Claims checked under SpecCreate                                         *)

\* C3. Round trip: the session POST returned carries the submitted messages,
\* one for one and in the submitted order, and a GET of it by its owner, with
\* no update or delete in between, returns that same session: same id, title,
\* createdAt and messages.
RoundTrip ==
    /\ (resp.op = "create" /\ resp.status = 201) =>
          /\ Len(resp.body.messages) = Len(resp.req.messages.items)
          /\ \A i \in 1 .. Len(resp.body.messages) :
                /\ resp.body.messages[i].role = resp.req.messages.items[i].role
                /\ resp.body.messages[i].text = resp.req.messages.items[i].text
    /\ resp.op = "get" =>
          \A b \in created :
              (b.id = resp.req.id /\ b.userId = resp.req.userId)
                 => (resp.status = 200 /\ resp.body = b)

\* C3 witness: a GET returned a session as created, with two equal messages
RoundTripWitness ==
    /\ resp.op = "get"
    /\ resp.status = 200
    /\ resp.body \in created
    /\ Len(resp.body.messages) = 2
    /\ resp.body.messages[1] = resp.body.messages[2]

\* the title rule of the claim: trimmed, or "Conversation" when that is empty
TitleRule(cs) == IF Trim(cs) = << >> THEN Conversation ELSE Trim(cs)

\* C7. Every title string POST is given, in an otherwise valid request, is
\* stored trimmed, or as "Conversation" when the trimmed value is empty (the
\* empty string or only whitespace).
CreateAppliesTitleRule ==
    (/\ resp.op = "create"
     /\ resp.req.title.kind = "string"
     /\ IsArray(resp.req.messages)
     /\ \A i \in 1 .. Len(resp.req.messages.items) :
           ValidMessage(CastMessage(resp.req.messages.items[i], clock)))
        => /\ resp.status = 201
           /\ resp.body.title = TitleRule(resp.req.title.chars)
           /\ \E d \in store : d.id = resp.body.id /\ d.title = resp.body.title

\* a messages value that is not a sequence of well-formed messages
Malformed(messages) ==
    \/ messages.kind = "string"
    \/ /\ messages.kind = "array"
       /\ \E i \in 1 .. Len(messages.items) : ~ValidMessage(CastMessage(messages.items[i], 0))

\* C8. POST answers malformed messages (not a sequence, or a sequence holding
\* a malformed message) with a 400 and stores nothing.
CreateRejectsMalformed ==
    [][(/\ resp'.op = "create"
        /\ resp'.req.title.kind = "string"
        /\ resp'.req.title.chars # << >>
        /\ Malformed(resp'.req.messages))
          => (resp'.status = 400 /\ store' = store)]_vars

----------------------------------------------------------------------------
(* Claims checked under SpecUpdate                                         *)

----------------------------------------------------------------------------
(* Claims checked under SpecRace                                           *)

\* the stored session after one update, given req, has run alone on doc
RunAlone(doc, req) ==
    LET saved == Save(doc, AssignFields(doc, req.title, req.messages, clock), {doc})
    IN  CHOOSE d \in saved.coll : TRUE

Content(d) == <<d.title, d.messages>>

\* C2. No lost update: when two updates of one session that both loaded the
\* same stored session have both succeeded, the stored title and messages
\* are those of the two updates applied one after the other, in one order
\* or the other.
UpdatesSerializable ==
    \A p, q \in Slots :
        (/\ p # q
         /\ inflight[p].pc = "saved" /\ inflight[q].pc = "saved"
         /\ inflight[p].status = 200 /\ inflight[q].status = 200
         /\ inflight[p].loaded = inflight[q].loaded)
           => LET base == inflight[p].loaded
                  rp   == inflight[p].req
                  rq   == inflight[q].req
              IN  \A d \in store :
                      d.id = base.id =>
                         Content(d) \in {Content(RunAlone(RunAlone(base, rp), rq)),
                                         Content(RunAlone(RunAlone(base, rq), rp))}

----------------------------------------------------------------------------
(* Claims checked under SpecList                                           *)

\* the sequences of all of a set of sessions, newest first
NewestFirst(sessions) ==
    LET n == Cardinality(sessions)
    IN  {s \in [1 .. n -> sessions] :
            /\ \A i, j \in 1 .. n : i # j => s[i] # s[j]
            /\ \A i, j \in 1 .. n : i < j => s[i].createdAt >= s[j].createdAt}

\* C5. list(ownerId, limit, offset) returns the sessions at positions
\* offset .. offset+limit-1 of the owner's sessions, newest first: only
\* sessions of that owner, and never more than limit of them; limit is 50
\* and offset 0 when omitted.
ListReturnsPage ==
    (resp.op = "list" /\ resp.status = 200) =>
        LET limit  == IF resp.req.limit.kind = "undefined" THEN 50
                      ELSE ParseInt(resp.req.limit.digits)
            offset == IF resp.req.skip.kind = "undefined" THEN 0
                      ELSE ParseInt(resp.req.skip.digits)
            owned  == {ToJSON(d) : d \in {e \in store : e.userId = resp.req.userId}}
            last   == IF offset + limit < Cardinality(owned) THEN offset + limit
                      ELSE Cardinality(owned)
        IN  /\ \A i \in 1 .. Len(resp.body) : resp.body[i].userId = resp.req.userId
            /\ Len(resp.body) <= limit
            /\ \E s \in NewestFirst(owned) : resp.body = SubSeq(s, offset + 1, last)

\* C9. Sessions of equal createdAt are listed in the order of their ids, so
\* that a list call repeated with the same arguments on an unchanged
\* collection returns the same sequence.
ListBreaksTiesById ==
    [][(resp'.op = "list" /\ resp'.status = 200) =>
          /\ \A i, j \in 1 .. Len(resp'.body) :
                (i < j /\ resp'.body[i].createdAt = resp'.body[j].createdAt)
                   => resp'.body[i].id < resp'.body[j].id
          /\ (/\ resp.op = "list" /\ resp.status = 200
              /\ resp'.req = resp.req
              /\ store' = store)
                => resp'.body = resp.body]_vars

====
